---- MODULE Spec2Model ----
(***************************************************************************)
(* Job lifecycle of the video analysis service (app/main.py):              *)
(* process_video_analysis (the background run), analyze_video (the upload  *)
(* handler that creates the record and schedules the run) and get_result   *)
(* (the lookup), over the video_analysis table, the temp directory and the *)
(* Prometheus metrics of app/metrics.py.                                   *)
(*                                                                         *)
(* Every call that can raise in the code (a query, a commit, the detector, *)
(* a metrics call, os.remove, db.close) has two outcomes here: it returns  *)
(* or it raises, and control then follows the code's try/except/finally.   *)
(***************************************************************************)
EXTENDS Integers, FiniteSets, Sequences, TLC

(* ---- bounds of the model ---- *)
MaxUploads == 2
MaxRuns == 2
MaxClock == 1
MaxDurationMs == 1
MaxFaults == 1
MaxFrames == 12
MaxShortFrames == 4

(* ---- VideoStatus (app/models.py) ---- *)
PENDING == "pending"
PROCESSING == "processing"
COMPLETED == "completed"
FAILED == "failed"
VideoStatus == {PENDING, PROCESSING, COMPLETED, FAILED}

(* A nullable column: None is the empty tuple, a value v is <<v>>. *)
None == <<>>
Some(v) == <<v>>

(* Record ids: the k-th request to POST /analyze, of MaxUploads, gets the    *)
(* fresh id k if it creates a record (uuid4 in the code); FakeId is an id no *)
(* upload ever gets (the tests' uuid.uuid4() fake_id).                       *)
FakeId == 0
UploadIds == 1..MaxUploads
Ids == {FakeId} \cup UploadIds
Runs == 1..MaxRuns
Durations == 0..MaxDurationMs

(* The row of a missing record. *)
NoRecord == [status |-> "absent"]

(* VideoAnalysis(filename=..., status=PENDING) after db.add/commit/refresh. *)
VideoAnalysis(t) ==
  [ status |-> PENDING,
    upload_time |-> t,
    analysis_time |-> None,
    has_motion |-> None,
    processing_duration_ms |-> None,
    error_message |-> None ]

(* The messages str(e) of the exceptions the run can catch. *)
DetectorError == "ValueError"
DatabaseError == "OperationalError"
MetricsError == "MetricsError"

VARIABLES
  video_analysis,                    \* the table: id -> row or NoRecord
  files,                             \* the paths of the temp files that exist
  video_processed_total,             \* Counter, by label
  video_errors_total,                \* Counter
  videos_in_queue,                   \* Gauge
  video_processing_duration_seconds, \* Histogram: the observations, in order
  run,                               \* the invocations of process_video_analysis
  upload,                            \* the analyze_video request and its answer
  tasks,                             \* background_tasks of answered uploads
  now,                               \* datetime.utcnow()
  faults,                            \* calls that raised for an outside cause
  result,                            \* the last answer of GET /results/{video_id}
  analyzer                           \* the calls of VideoAnalyzer.detect_motion

vars == << video_analysis, files, video_processed_total, video_errors_total,
           videos_in_queue, video_processing_duration_seconds, run, upload,
           tasks, now, faults, result, analyzer >>

metrics == << video_processed_total, video_errors_total, videos_in_queue,
              video_processing_duration_seconds >>

(* video_processed_total with `completed` and `failed` counted under these *)
(* two labels and nothing under any other.                                 *)
Processed(completed, failed) ==
  [status \in VideoStatus |->
     IF status = COMPLETED THEN completed
     ELSE IF status = FAILED THEN failed ELSE 0]

(* increment_video_processed counting a failure under the status the       *)
(* record was in when it failed.                                           *)
increment_video_processed_mislabeled(status) ==
  [video_processed_total EXCEPT
     ![IF status = FAILED THEN PROCESSING ELSE status] = @ + 1]

(* video_processed_total.labels(status=status).inc() *)
increment_video_processed(status) ==
  [video_processed_total EXCEPT ![status] = @ + 1]

(* The path with the record's id left out of the file name. *)
VideoPath_without_id(id) == << "tmp" >>

(* os.path.join(temp_dir, f"{video_record.id}_{file.filename}") *)
VideoPath(id) == << "tmp", id >>

(* The calls an invocation made to app/metrics.py that took effect:       *)
(* increment_video_processed by label, increment_video_errors, and the    *)
(* values given to observe_processing_duration.                           *)
NoCalls == [completed |-> 0, failed |-> 0, errors |-> 0, observed |-> << >>]

(* One invocation of process_video_analysis that has not started. *)
IdleRun ==
  [ pc |-> "idle",
    video_id |-> FakeId,
    should_close |-> FALSE,
    session_ok |-> TRUE,      \* the session's transaction accepts SQL
    changes |-> << >>,        \* attributes set on video_record, not yet flushed
    has_motion |-> FALSE,     \* the locals the detector's result is bound to
    processing_duration_ms |-> 0,
    e |-> None,               \* str(e) of the exception caught at line 87
    reraise |-> FALSE,        \* an exception is propagating through finally
    remove_failed |-> FALSE,  \* os.remove raised
    gauge_set |-> FALSE,      \* set_videos_in_queue was called
    in_except |-> FALSE,      \* the except block of line 87 was entered
    detector_raised |-> FALSE, \* detect_motion raised
    write_failed |-> FALSE,   \* the except block of line 97 was entered
    counted |-> NoCalls,      \* the metrics calls this invocation made
    closed |-> 0 ]            \* the calls of db.close() on the run's session

(* The function has returned or raised: its locals are gone. *)
Finished(rn, pc) ==
  [IdleRun EXCEPT !.pc = pc, !.video_id = rn.video_id,
                  !.should_close = rn.should_close, !.closed = rn.closed]

(* No call of detect_motion is in progress or was made. *)
NoCall == [pc |-> "idle"]

Init ==
  /\ video_analysis = [i \in Ids |-> NoRecord]
  /\ files = {VideoPath(FakeId)}
  /\ video_processed_total = [status \in VideoStatus |-> 0]
  /\ video_errors_total = 0
  /\ videos_in_queue = 0
  /\ video_processing_duration_seconds = << >>
  /\ run = [r \in Runs |-> IdleRun]
  /\ upload = [pc |-> "idle", next_id |-> 1, id |-> FakeId, answer |-> None,
               task_added |-> FALSE]
  /\ tasks = {}
  /\ now = 0
  /\ faults = 0
  /\ result = None
  /\ analyzer = NoCall

(* ---- helpers ---- *)

(* A call raises for a cause outside the program (the database, the disk, *)
(* the metrics registry): at most MaxFaults such failures in a behaviour. *)
Fault == faults < MaxFaults /\ faults' = faults + 1
NoFault == faults' = faults

(* A call of an except block that was entered by such a failure raises in  *)
(* its turn (the outage lasts): one failure more than MaxFaults.           *)
FollowingFault == faults <= MaxFaults /\ faults' = faults + 1

Exists(id) == video_analysis[id] # NoRecord

(* The UPDATE a flush emits: the changed attributes over the stored row. *)
Flush(row, changes) ==
  [f \in DOMAIN row |-> IF f \in DOMAIN changes THEN changes[f] ELSE row[f]]

(* Setting attributes on video_record: later values replace earlier ones. *)
SetAttrs(changes, new) ==
  [f \in DOMAIN changes \cup DOMAIN new |->
     IF f \in DOMAIN new THEN new[f] ELSE changes[f]]

(* Setting attributes on a video_record that was just loaded: an attribute *)
(* set to the value it was loaded with is not changed, and no UPDATE is     *)
(* emitted for it.                                                          *)
Dirty(row, new) ==
  [f \in {g \in DOMAIN new : new[g] # row[g]} |-> new[f]]

(* db.query(VideoAnalysis).filter(status.in_([PENDING, PROCESSING])).count() *)
PendingCount ==
  Cardinality({i \in Ids : video_analysis[i].status \in {PENDING, PROCESSING}})

(* processing_duration_ms / 1000.0: the seconds, as the fraction ms/1000. *)
Seconds(ms) == [num |-> ms, den |-> 1000]

(* The run slot the next invocation takes: slots are used in order. *)
Started == {r \in Runs : run[r].pc # "idle"}
NextRun == Cardinality(Started) + 1

(* ---- process_video_analysis ---- *)

(* The background scheduler runs a task of an answered upload: no db_session, *)
(* so the run opens its own session (lines 42-59).                            *)
BackgroundRun(id) ==
  /\ id \in tasks
  /\ NextRun \in Runs
  /\ tasks' = tasks \ {id}
  /\ run' = [run EXCEPT ![NextRun] =
               [IdleRun EXCEPT !.pc = "query", !.video_id = id,
                               !.should_close = TRUE]]
  /\ UNCHANGED << video_analysis, files, metrics, upload, now, result,
                  analyzer, faults >>

(* A caller (the test harness) calls the function itself, with its own    *)
(* db_session or with none, for the record of an upload that was answered *)
(* or for an id that is in no record.                                     *)
Answered == {i \in UploadIds : i < upload.next_id
                                /\ ~(upload.pc # "idle" /\ upload.id = i)}

DirectRun(id, db_session) ==
  /\ id \in {FakeId} \cup Answered
  /\ NextRun \in Runs
  /\ run' = [run EXCEPT ![NextRun] =
               [IdleRun EXCEPT !.pc = "query", !.video_id = id,
                               !.should_close = ~db_session]]
  /\ UNCHANGED << video_analysis, files, metrics, upload, tasks,
                  now, result, analyzer, faults >>

(* Query with the `return` of line 66 lost: the run goes on to line 68 with *)
(* no record, which raises into the except block.                          *)
Query_falls_through(r) ==
  /\ run[r].pc = "query"
  /\ NoFault
  /\ run' = [run EXCEPT ![r].pc = "requery", ![r].e = Some("AttributeError"),
                        ![r].in_except = TRUE]
  /\ UNCHANGED << video_analysis, files, metrics, upload, tasks, now, result,
                  analyzer >>

(* Lines 63-68: load the record; none: return (finally runs); else set      *)
(* status PROCESSING. A query that raises goes to the except block, and     *)
(* leaves the session usable (no connection was got) or not.                *)
Query(r) ==
  /\ run[r].pc = "query"
  /\ \/ /\ Fault
        /\ \E usable \in BOOLEAN :
             run' = [run EXCEPT ![r].pc = "requery",
                                ![r].e = Some(DatabaseError),
                                ![r].in_except = TRUE,
                                ![r].session_ok = usable]
     \/ /\ NoFault
        /\ ~Exists(run[r].video_id)
        /\ run' = [run EXCEPT ![r].pc = "remove"]
     \/ /\ NoFault
        /\ Exists(run[r].video_id)
        /\ run' = [run EXCEPT ![r].pc = "commit_processing",
                              ![r].changes =
                                 Dirty(video_analysis[run[r].video_id],
                                       [status |-> PROCESSING])]
  /\ UNCHANGED << video_analysis, files, metrics, upload, tasks, now, result,
                  analyzer >>

(* Commit with a conflict check: a status is written only over an earlier  *)
(* one, and a commit that finds a later status stored writes nothing.      *)
Commit_first_writer_wins(r, next, handler, caught) ==
  LET id == run[r].video_id
      stale == /\ Exists(id)
               /\ "status" \in DOMAIN run[r].changes
               /\ video_analysis[id].status \in {COMPLETED, FAILED}
  IN
  \/ /\ NoFault
     /\ Exists(id) \/ run[r].changes = << >>
     /\ video_analysis' =
          IF Exists(id) /\ ~stale
            THEN [video_analysis EXCEPT ![id] = Flush(@, run[r].changes)]
            ELSE video_analysis
     /\ run' = [run EXCEPT ![r].pc = next, ![r].changes = << >>]
  \/ /\ IF Exists(id) \/ run[r].changes = << >> THEN Fault ELSE NoFault
     /\ video_analysis' = video_analysis
     /\ run' = [run EXCEPT ![r].pc = handler,
                           ![r].changes = << >>,
                           ![r].session_ok = FALSE,
                           ![r].has_motion = FALSE,
                           ![r].processing_duration_ms = 0,
                           ![r].in_except = TRUE,
                           ![r].write_failed = IF caught THEN @ ELSE TRUE,
                           ![r].e = IF caught THEN Some(DatabaseError) ELSE @]

(* Commit with the WHERE clause of its UPDATE lost: the pending changes    *)
(* are written to every row of the table.                                  *)
Commit_updates_every_row(r, next, handler, caught) ==
  LET id == run[r].video_id IN
  \/ /\ NoFault
     /\ Exists(id) \/ run[r].changes = << >>
     /\ video_analysis' =
          IF Exists(id)
            THEN [i \in Ids |-> IF Exists(i)
                                  THEN Flush(video_analysis[i], run[r].changes)
                                  ELSE video_analysis[i]]
            ELSE video_analysis
     /\ run' = [run EXCEPT ![r].pc = next, ![r].changes = << >>]
  \/ /\ IF Exists(id) \/ run[r].changes = << >> THEN Fault ELSE NoFault
     /\ video_analysis' = video_analysis
     /\ run' = [run EXCEPT ![r].pc = handler,
                           ![r].changes = << >>,
                           ![r].session_ok = FALSE,
                           ![r].has_motion = FALSE,
                           ![r].processing_duration_ms = 0,
                           ![r].in_except = TRUE,
                           ![r].write_failed = IF caught THEN @ ELSE TRUE,
                           ![r].e = IF caught THEN Some(DatabaseError) ELSE @]

(* db.commit(): the pending changes of video_record are written to its row  *)
(* and the run goes on at `next`; or the commit raises (always when there   *)
(* are changes and the row is gone: the UPDATE matches no row), nothing is  *)
(* written, the session's transaction is left unusable (nothing rolls it    *)
(* back) and the run goes on at `handler`, with the exception as e when     *)
(* `caught` by line 87.                                                     *)
Commit(r, next, handler, caught) ==
  LET id == run[r].video_id IN
  \/ /\ NoFault
     /\ Exists(id) \/ run[r].changes = << >>
     /\ video_analysis' =
          IF Exists(id)
            THEN [video_analysis EXCEPT ![id] = Flush(@, run[r].changes)]
            ELSE video_analysis
     /\ run' = [run EXCEPT ![r].pc = next, ![r].changes = << >>]
  \/ /\ IF Exists(id) \/ run[r].changes = << >> THEN Fault ELSE NoFault
     /\ video_analysis' = video_analysis
     /\ run' = [run EXCEPT ![r].pc = handler,
                           ![r].changes = << >>,
                           ![r].session_ok = FALSE,
                           ![r].has_motion = FALSE,
                           ![r].processing_duration_ms = 0,
                           ![r].in_except = TRUE,
                           ![r].write_failed = IF caught THEN @ ELSE TRUE,
                           ![r].e = IF caught THEN Some(DatabaseError) ELSE @]

(* CommitProcessing with the commit of line 69 lost: the status is set on  *)
(* the object and the detector is called before anything is written.       *)
CommitProcessing_not_persisted(r) ==
  /\ run[r].pc = "commit_processing"
  /\ run' = [run EXCEPT ![r].pc = "detect_motion"]
  /\ UNCHANGED << video_analysis, files, metrics, upload, tasks,
                  now, result, analyzer, faults >>

(* Line 69. *)
CommitProcessing(r) ==
  /\ run[r].pc = "commit_processing"
  /\ Commit(r, "detect_motion", "requery", TRUE)
  /\ UNCHANGED << files, metrics, upload, tasks, now, result, analyzer >>

(* Line 72, the call: the detector starts on video_path. *)
DetectCall(r) ==
  /\ run[r].pc = "detect_motion"
  /\ run' = [run EXCEPT ![r].pc = "detecting"]
  /\ UNCHANGED << video_analysis, files, metrics, upload, tasks,
                  now, result, analyzer, faults >>

(* DetectReturn with line 76 lost: processing_duration_ms is not set on the *)
(* record.                                                                 *)
DetectReturn_drops_duration(r) ==
  /\ run[r].pc = "detecting"
  /\ \/ /\ VideoPath(run[r].video_id) \in files
        /\ \E has_motion \in BOOLEAN, processing_duration_ms \in Durations :
             run' = [run EXCEPT
                       ![r].pc = "commit_completed",
                       ![r].has_motion = has_motion,
                       ![r].processing_duration_ms = processing_duration_ms,
                       ![r].changes = SetAttrs(@,
                          [ has_motion |-> Some(has_motion),
                            analysis_time |-> Some(now),
                            status |-> COMPLETED ])]
     \/ run' = [run EXCEPT ![r].pc = "requery", ![r].e = Some(DetectorError),
                           ![r].in_except = TRUE,
                           ![r].detector_raised = TRUE]
  /\ UNCHANGED << video_analysis, files, metrics, upload, tasks,
                  now, result, analyzer, faults >>

(* DetectReturn with a clock of its own for line 77: analysis_time is      *)
(* taken from a clock that has not advanced since the service started.     *)
DetectReturn_stale_clock(r) ==
  /\ run[r].pc = "detecting"
  /\ \/ /\ VideoPath(run[r].video_id) \in files
        /\ \E has_motion \in BOOLEAN, processing_duration_ms \in Durations :
             run' = [run EXCEPT
                       ![r].pc = "commit_completed",
                       ![r].has_motion = has_motion,
                       ![r].processing_duration_ms = processing_duration_ms,
                       ![r].changes = SetAttrs(@,
                          [ has_motion |-> Some(has_motion),
                            processing_duration_ms |-> Some(processing_duration_ms),
                            analysis_time |-> Some(0),
                            status |-> COMPLETED ])]
     \/ run' = [run EXCEPT ![r].pc = "requery", ![r].e = Some(DetectorError),
                           ![r].in_except = TRUE,
                           ![r].detector_raised = TRUE]
  /\ UNCHANGED << video_analysis, files, metrics, upload, tasks,
                  now, result, analyzer, faults >>

(* Lines 72-78: the detector returns (has_motion, processing_duration_ms),  *)
(* which only a file that exists can give, and the result is set on the     *)
(* record; or the detector raises (no file, no readable frame).             *)
DetectReturn(r) ==
  /\ run[r].pc = "detecting"
  /\ \/ /\ VideoPath(run[r].video_id) \in files
        /\ \E has_motion \in BOOLEAN, processing_duration_ms \in Durations :
             run' = [run EXCEPT
                       ![r].pc = "commit_completed",
                       ![r].has_motion = has_motion,
                       ![r].processing_duration_ms = processing_duration_ms,
                       ![r].changes = SetAttrs(@,
                          [ has_motion |-> Some(has_motion),
                            processing_duration_ms |-> Some(processing_duration_ms),
                            analysis_time |-> Some(now),
                            status |-> COMPLETED ])]
     \/ run' = [run EXCEPT ![r].pc = "requery", ![r].e = Some(DetectorError),
                           ![r].in_except = TRUE,
                           ![r].detector_raised = TRUE]
  /\ UNCHANGED << video_analysis, files, metrics, upload, tasks,
                  now, result, analyzer, faults >>

(* Line 79. *)
CommitCompleted(r) ==
  /\ run[r].pc = "commit_completed"
  /\ Commit(r, "report_completed", "requery", TRUE)
  /\ UNCHANGED << files, metrics, upload, tasks, now, result, analyzer >>

(* Lines 82-83: increment_video_processed("completed") and                *)
(* observe_processing_duration(processing_duration_ms / 1000.0), after     *)
(* which the try block ends and finally runs; either call can raise, into  *)
(* the except block.                                                       *)
ReportCompleted(r) ==
  /\ run[r].pc = "report_completed"
  /\ \/ /\ NoFault
        /\ video_processed_total' =
             increment_video_processed(COMPLETED)
        /\ video_processing_duration_seconds' =
             Append(video_processing_duration_seconds,
                    Seconds(run[r].processing_duration_ms))
        /\ run' = [run EXCEPT ![r].pc = "remove",
                              ![r].counted.completed = @ + 1,
                              ![r].counted.observed =
                                 Append(@, Seconds(run[r].processing_duration_ms)),
                              ![r].has_motion = FALSE,
                              ![r].processing_duration_ms = 0]
     \/ /\ Fault
        /\ video_processed_total' =
             increment_video_processed(COMPLETED)
        /\ UNCHANGED video_processing_duration_seconds
        /\ run' = [run EXCEPT ![r].pc = "requery", ![r].e = Some(MetricsError),
                              ![r].in_except = TRUE,
                              ![r].counted.completed = @ + 1,
                              ![r].has_motion = FALSE,
                              ![r].processing_duration_ms = 0]
     \/ /\ Fault
        /\ UNCHANGED << video_processed_total,
                        video_processing_duration_seconds >>
        /\ run' = [run EXCEPT ![r].pc = "requery", ![r].e = Some(MetricsError),
                              ![r].in_except = TRUE,
                              ![r].has_motion = FALSE,
                              ![r].processing_duration_ms = 0]
  /\ UNCHANGED << video_analysis, files, video_errors_total, videos_in_queue,
                  upload, tasks, now, result, analyzer >>

(* Requery with line 95 lost: the record is marked FAILED with no          *)
(* error_message.                                                          *)
Requery_drops_message(r) ==
  /\ run[r].pc = "requery"
  /\ \/ /\ IF run[r].session_ok THEN Fault ELSE NoFault
        /\ run' = [run EXCEPT ![r].pc = "report_failed",
                              ![r].write_failed = TRUE,
                              ![r].session_ok = FALSE, ![r].e = None]
     \/ /\ NoFault
        /\ run[r].session_ok
        /\ ~Exists(run[r].video_id)
        /\ run' = [run EXCEPT ![r].pc = "report_failed", ![r].e = None]
     \/ /\ NoFault
        /\ run[r].session_ok
        /\ Exists(run[r].video_id)
        /\ run' = [run EXCEPT ![r].pc = "commit_failed",
                              ![r].e = None,
                              ![r].changes =
                                 Dirty(video_analysis[run[r].video_id],
                                       [ status |-> FAILED ])]
  /\ UNCHANGED << video_analysis, files, metrics, upload, tasks, now, result,
                  analyzer >>

(* Lines 87-95, in the except block: load the record again; when there is  *)
(* one, set status FAILED and error_message str(e). A query that raises,   *)
(* as every query on an unusable session does, is caught at line 97.       *)
Requery(r) ==
  /\ run[r].pc = "requery"
  /\ \/ /\ IF run[r].session_ok THEN Fault ELSE NoFault
        /\ run' = [run EXCEPT ![r].pc = "report_failed",
                              ![r].write_failed = TRUE,
                              ![r].session_ok = FALSE, ![r].e = None]
     \/ /\ NoFault
        /\ run[r].session_ok
        /\ ~Exists(run[r].video_id)
        /\ run' = [run EXCEPT ![r].pc = "report_failed", ![r].e = None]
     \/ /\ NoFault
        /\ run[r].session_ok
        /\ Exists(run[r].video_id)
        /\ run' = [run EXCEPT ![r].pc = "commit_failed",
                              ![r].e = None,
                              ![r].changes =
                                 Dirty(video_analysis[run[r].video_id],
                                       [ status |-> FAILED,
                                         error_message |-> run[r].e ])]
  /\ UNCHANGED << video_analysis, files, metrics, upload, tasks, now, result,
                  analyzer >>

(* Lines 96-98: a commit that raises is caught and logged. *)
CommitFailed(r) ==
  /\ run[r].pc = "commit_failed"
  /\ Commit(r, "report_failed", "report_failed", FALSE)
  /\ UNCHANGED << files, metrics, upload, tasks, now, result, analyzer >>

(* Lines 100-101: increment_video_processed("failed") and                *)
(* increment_video_errors(), inside the except block: an exception of      *)
(* either call propagates, after finally has run.                          *)
ReportFailed(r) ==
  /\ run[r].pc = "report_failed"
  /\ \/ /\ NoFault
        /\ video_processed_total' =
             increment_video_processed(FAILED)
        /\ video_errors_total' = video_errors_total + 1
        /\ run' = [run EXCEPT ![r].pc = "remove",
                              ![r].counted.failed = @ + 1,
                              ![r].counted.errors = @ + 1]
     \/ /\ Fault
        /\ video_processed_total' =
             increment_video_processed(FAILED)
        /\ UNCHANGED video_errors_total
        /\ run' = [run EXCEPT ![r].pc = "remove", ![r].reraise = TRUE,
                              ![r].counted.failed = @ + 1]
     \/ /\ Fault
        /\ UNCHANGED << video_processed_total, video_errors_total >>
        /\ run' = [run EXCEPT ![r].pc = "remove", ![r].reraise = TRUE]
  /\ UNCHANGED << video_analysis, files, videos_in_queue,
                  video_processing_duration_seconds, upload, tasks, now,
                  result, analyzer >>

(* Remove with the os.remove of line 107 lost. *)
Remove_leaves_file(r) ==
  /\ run[r].pc = "remove"
  /\ run' = [run EXCEPT ![r].pc = "count"]
  /\ UNCHANGED << video_analysis, files, metrics, upload, tasks,
                  now, result, analyzer, faults >>

(* Remove with its try block lost: an os.remove that raises leaves the     *)
(* function at once, with no recount and no close.                         *)
Remove_aborts_cleanup(r) ==
  LET video_path == VideoPath(run[r].video_id) IN
  /\ run[r].pc = "remove"
  /\ \/ /\ NoFault
        /\ files' = files \ {video_path}
        /\ run' = [run EXCEPT ![r].pc = "count"]
     \/ /\ Fault
        /\ video_path \in files
        /\ files' = files
        /\ run' = [run EXCEPT ![r] = Finished(@, "raised")]
  /\ UNCHANGED << video_analysis, metrics, upload, tasks, now, result,
                  analyzer >>

(* Lines 105-109: the temp file is removed if it exists; an os.remove that *)
(* raises is logged and leaves the file.                                   *)
Remove(r) ==
  LET video_path == VideoPath(run[r].video_id) IN
  /\ run[r].pc = "remove"
  /\ \/ /\ NoFault
        /\ files' = files \ {video_path}
        /\ run' = [run EXCEPT ![r].pc = "count"]
     \/ /\ Fault
        /\ video_path \in files
        /\ files' = files
        /\ run' = [run EXCEPT ![r].pc = "count", ![r].remove_failed = TRUE]
  /\ UNCHANGED << video_analysis, metrics, upload, tasks, now, result,
                  analyzer >>

(* Lines 112-118: count the pending and processing records and set the     *)
(* gauge; a count that raises, as every query on an unusable session does, *)
(* is logged.                                                              *)
Count(r) ==
  /\ run[r].pc = "count"
  /\ \/ /\ NoFault
        /\ run[r].session_ok
        /\ videos_in_queue' = PendingCount
        /\ run' = [run EXCEPT ![r].pc = "close", ![r].gauge_set = TRUE]
     \/ /\ IF run[r].session_ok THEN Fault ELSE NoFault
        /\ videos_in_queue' = videos_in_queue
        /\ run' = [run EXCEPT ![r].pc = "close"]
  /\ UNCHANGED << video_analysis, files, video_processed_total,
                  video_errors_total, video_processing_duration_seconds,
                  upload, tasks, now, result, analyzer >>

(* Close with the test of line 120 lost: db.close() is called on the       *)
(* caller's session too.                                                   *)
Close_closes_any_session(r) ==
  /\ run[r].pc = "close"
  /\ \/ /\ NoFault
        /\ run' = [run EXCEPT ![r] =
                     Finished([@ EXCEPT !.closed = @ + 1],
                              IF @.reraise THEN "raised" ELSE "returned")]
     \/ /\ Fault
        /\ run' = [run EXCEPT ![r] =
                     Finished([@ EXCEPT !.closed = @ + 1], "raised")]
  /\ UNCHANGED << video_analysis, files, metrics, upload, tasks, now, result,
                  analyzer >>

(* Lines 119-121: a session the run opened is closed; the function returns, *)
(* or raises the exception that is propagating or that db.close() raised.   *)
Close(r) ==
  /\ run[r].pc = "close"
  /\ \/ /\ NoFault
        /\ run' = [run EXCEPT ![r] =
                     Finished([@ EXCEPT !.closed =
                                 IF run[r].should_close THEN @ + 1 ELSE @],
                              IF @.reraise THEN "raised" ELSE "returned")]
     \/ /\ Fault
        /\ run[r].should_close
        /\ run' = [run EXCEPT ![r] =
                     Finished([@ EXCEPT !.closed = @ + 1], "raised")]
  /\ UNCHANGED << video_analysis, files, metrics, upload, tasks, now, result,
                  analyzer >>

(* ---- analyze_video ---- *)

(* A filename is the sequence of its characters. *)
ALLOWED_VIDEO_EXTENSIONS ==
  { << ".", "m", "p", "4" >>, << ".", "a", "v", "i" >>,
    << ".", "m", "o", "v" >>, << ".", "m", "k", "v" >>,
    << ".", "w", "e", "b", "m" >>, << ".", "f", "l", "v" >> }

(* The filenames the uploads of the model carry: a.mp4, A.MP4, a.avi,      *)
(* a.txt.mp4 (videos by their extension) and a.txt, a, mp4, .mp4, a.mp4.txt, *)
(* a.mp4/b (not videos).                                                    *)
Filenames ==
  { << "a", ".", "m", "p", "4" >>, << "A", ".", "M", "P", "4" >>,
    << "a", ".", "a", "v", "i" >>,
    << "a", ".", "t", "x", "t", ".", "m", "p", "4" >>,
    << "a", ".", "t", "x", "t" >>, << "a" >>, << "m", "p", "4" >>,
    << ".", "m", "p", "4" >>,
    << "a", ".", "m", "p", "4", ".", "t", "x", "t" >>,
    << "a", ".", "m", "p", "4", "/", "b" >> }

(* str.lower(), on the characters the filenames are made of. *)
lower(str) ==
  [k \in 1..Len(str) |->
     CASE str[k] = "A" -> "a"
       [] str[k] = "M" -> "m"
       [] str[k] = "P" -> "p"
       [] OTHER -> str[k]]

(* str.rfind(c) as a 1-based index: 0 when c is not in str. *)
rfind(str, c) ==
  LET at == {k \in 1..Len(str) : str[k] = c} IN
  IF at = {} THEN 0 ELSE CHOOSE k \in at : \A j \in at : j <= k

(* os.path.splitext: the extension starts at the last dot of the last path *)
(* component, unless only dots precede it there.                           *)
splitext(path) ==
  LET sepIndex == rfind(path, "/")
      dotIndex == rfind(path, ".") IN
  IF /\ dotIndex > sepIndex
     /\ \E k \in (sepIndex + 1)..(dotIndex - 1) : path[k] # "."
    THEN << SubSeq(path, 1, dotIndex - 1), SubSeq(path, dotIndex, Len(path)) >>
    ELSE << path, << >> >>

(* Lines 36-39. *)
is_video_file(filename) ==
  splitext(lower(filename))[2] \in ALLOWED_VIDEO_EXTENSIONS

(* The answers of the handler: HTTPException(status_code) and              *)
(* AnalyzeResponse(video_id, status=PENDING.value), sent with status 200.  *)
HTTPException(status_code) == [status_code |-> status_code]
AnalyzeResponse(video_id) ==
  [status_code |-> 200, video_id |-> video_id, status |-> PENDING]

(* is_video_file over the filenames of the model. *)
IsVideoFile == [filename \in Filenames |-> is_video_file(filename)]

(* Lines 133-137: a filename that is not a video's is answered 400. The    *)
(* request is one of the MaxUploads requests of a behaviour.               *)
UploadReject(filename) ==
  /\ upload.pc = "idle"
  /\ upload.next_id \in UploadIds
  /\ ~IsVideoFile[filename]
  /\ upload' = [upload EXCEPT !.next_id = @ + 1,
                              !.answer = HTTPException(400)]
  /\ UNCHANGED << video_analysis, files, metrics, run, tasks,
                  now, result, analyzer, faults >>

(* UploadCreate with the check of lines 133-137 lost: a record is created  *)
(* for any filename.                                                       *)
UploadCreate_unchecked(filename) ==
  /\ upload.pc = "idle"
  /\ upload.next_id \in UploadIds
  /\ video_analysis' =
       [video_analysis EXCEPT ![upload.next_id] = VideoAnalysis(now)]
  /\ upload' = [pc |-> "save", next_id |-> upload.next_id + 1,
                id |-> upload.next_id, answer |-> None,
                task_added |-> FALSE]
  /\ UNCHANGED << files, metrics, run, tasks, now, result, analyzer, faults >>

(* Lines 133-150: for a video's filename the record is created pending, *)
(* with a fresh id.                                                     *)
UploadCreate(filename) ==
  /\ upload.pc = "idle"
  /\ upload.next_id \in UploadIds
  /\ IsVideoFile[filename]
  /\ video_analysis' =
       [video_analysis EXCEPT ![upload.next_id] = VideoAnalysis(now)]
  /\ upload' = [pc |-> "save", next_id |-> upload.next_id + 1,
                id |-> upload.next_id, answer |-> None,
                task_added |-> FALSE]
  /\ UNCHANGED << files, metrics, run, tasks, now, result, analyzer, faults >>

(* Lines 152-155: the uploaded bytes are written to video_path; a write    *)
(* that raises may have created the file already.                          *)
UploadSave ==
  /\ upload.pc = "save"
  /\ \/ /\ NoFault
        /\ files' = files \cup {VideoPath(upload.id)}
        /\ upload' = [upload EXCEPT !.pc = "add_task"]
     \/ /\ Fault
        /\ files' \in {files, files \cup {VideoPath(upload.id)}}
        /\ upload' = [upload EXCEPT !.pc = "except"]
  /\ UNCHANGED << video_analysis, metrics, run, tasks, now, result, analyzer >>

(* UploadRespond with the add_task of lines 162-169 lost: the request is   *)
(* answered and no run is scheduled.                                       *)
UploadRespond_schedules_nothing ==
  /\ upload.pc = "add_task"
  /\ \/ /\ NoFault
        /\ videos_in_queue' = PendingCount
        /\ tasks' = tasks
        /\ upload' = [upload EXCEPT !.pc = "idle",
                                    !.answer = AnalyzeResponse(upload.id)]
     \/ /\ Fault
        /\ UNCHANGED << videos_in_queue, tasks >>
        /\ upload' = [upload EXCEPT !.pc = "except"]
  /\ UNCHANGED << video_analysis, files, video_processed_total,
                  video_errors_total, video_processing_duration_seconds,
                  run, now, result, analyzer >>

(* UploadRespond with a task that outlives the failed request: the count   *)
(* raises after add_task and the task stays scheduled.                     *)
UploadRespond_keeps_task ==
  /\ upload.pc = "add_task"
  /\ \/ /\ NoFault
        /\ videos_in_queue' = PendingCount
        /\ tasks' = tasks \cup {upload.id}
        /\ upload' = [upload EXCEPT !.pc = "idle",
                                    !.answer = AnalyzeResponse(upload.id)]
     \/ /\ Fault
        /\ videos_in_queue' = videos_in_queue
        /\ tasks' = tasks \cup {upload.id}
        /\ upload' = [upload EXCEPT !.pc = "except", !.task_added = TRUE]
  /\ UNCHANGED << video_analysis, files, video_processed_total,
                  video_errors_total, video_processing_duration_seconds,
                  run, now, result, analyzer >>

(* Lines 157-181: the task is added, the queue gauge is set and the        *)
(* response is returned, after which the task can run; a count that raises *)
(* goes to the except block, after add_task was called, and the task is    *)
(* dropped with the response that is never sent.                           *)
UploadRespond ==
  /\ upload.pc = "add_task"
  /\ \/ /\ NoFault
        /\ videos_in_queue' = PendingCount
        /\ tasks' = tasks \cup {upload.id}
        /\ upload' = [upload EXCEPT !.pc = "idle",
                                    !.answer = AnalyzeResponse(upload.id)]
     \/ /\ Fault
        /\ UNCHANGED << videos_in_queue, tasks >>
        /\ upload' = [upload EXCEPT !.pc = "except", !.task_added = TRUE]
  /\ UNCHANGED << video_analysis, files, video_processed_total,
                  video_errors_total, video_processing_duration_seconds,
                  run, now, result, analyzer >>

(* UploadExcept with lines 189-190 lost: the record is deleted and the     *)
(* file is left in the temp directory.                                     *)
UploadExcept_keeps_file ==
  /\ upload.pc = "except"
  /\ \/ /\ NoFault
        /\ video_analysis' = [video_analysis EXCEPT ![upload.id] = NoRecord]
        /\ files' = files
     \/ /\ FollowingFault
        /\ UNCHANGED << video_analysis, files >>
  /\ upload' = [upload EXCEPT !.pc = "idle", !.answer = HTTPException(500),
                              !.task_added = FALSE]
  /\ UNCHANGED << metrics, run, tasks, now, result, analyzer >>

(* Lines 183-193: the record is deleted, the file is removed if it exists, *)
(* and the request is answered 500. The calls of the except block can      *)
(* raise too: when the commit of line 186 raises, the exception leaves the *)
(* handler before line 189, so the record and the file stay; when          *)
(* os.remove raises, the record is deleted and the file stays. The request *)
(* is answered 500 in each case (an exception that leaves the handler is   *)
(* answered 500 by the framework).                                         *)
UploadExcept ==
  /\ upload.pc = "except"
  /\ \/ /\ NoFault
        /\ video_analysis' = [video_analysis EXCEPT ![upload.id] = NoRecord]
        /\ files' = files \ {VideoPath(upload.id)}
     \/ /\ FollowingFault
        /\ UNCHANGED << video_analysis, files >>
     \/ /\ FollowingFault
        /\ VideoPath(upload.id) \in files
        /\ video_analysis' = [video_analysis EXCEPT ![upload.id] = NoRecord]
        /\ files' = files
  /\ upload' = [upload EXCEPT !.pc = "idle", !.answer = HTTPException(500),
                              !.task_added = FALSE]
  /\ UNCHANGED << metrics, run, tasks, now, result, analyzer >>

(* ---- get_result ---- *)

(* VideoAnalysisResponse.model_validate(video_record): the columns of the *)
(* record, copied into the answer.                                        *)
VideoAnalysisResponse(id, video_record) ==
  [ status_code |-> 200,
    id |-> id,
    upload_time |-> video_record.upload_time,
    analysis_time |-> video_record.analysis_time,
    has_motion |-> video_record.has_motion,
    processing_duration_ms |-> video_record.processing_duration_ms,
    status |-> video_record.status,
    error_message |-> video_record.error_message ]

(* get_result answering from a stale copy: the status in the answer is the *)
(* one the record was created with.                                        *)
get_result_stale(video_id) ==
  /\ \/ /\ NoFault
        /\ ~Exists(video_id)
        /\ result' = HTTPException(404)
     \/ /\ NoFault
        /\ Exists(video_id)
        /\ result' = VideoAnalysisResponse(video_id,
                        [video_analysis[video_id] EXCEPT !.status = PENDING])
     \/ /\ Fault
        /\ result' = HTTPException(500)
  /\ UNCHANGED << video_analysis, files, metrics, run, upload, tasks, now,
                  analyzer >>

(* Lines 196-205: the record is looked up; none: 404; else its columns are *)
(* answered. A query that raises is handled by nothing: the answer is 500. *)
get_result(video_id) ==
  /\ \/ /\ NoFault
        /\ ~Exists(video_id)
        /\ result' = HTTPException(404)
     \/ /\ NoFault
        /\ Exists(video_id)
        /\ result' = VideoAnalysisResponse(video_id, video_analysis[video_id])
     \/ /\ Fault
        /\ result' = HTTPException(500)
  /\ UNCHANGED << video_analysis, files, metrics, run, upload, tasks, now,
                  analyzer >>

(* ---- VideoAnalyzer.detect_motion (app/services/video_analyzer.py) ---- *)

(* A pixel is its (B, G, R) bytes; a frame is the tuple of its pixels (an   *)
(* image of one row and two columns).                                       *)
Black == << 0, 0, 0 >>
Dim == << 30, 30, 30 >>
White == << 255, 255, 255 >>
FrameBlack == << Black, Black >>
FrameDim == << Dim, Dim >>
FrameHalf == << White, Black >>
FrameWhite == << White, White >>
Palette == {FrameBlack, FrameDim, FrameHalf, FrameWhite}

(* The frame sequences of the model: every sequence of up to               *)
(* MaxShortFrames frames of the palette, and the sequences of MaxFrames     *)
(* black and white frames made of at most three runs of equal frames.       *)
ShortClips == UNION {[1..n -> Palette] : n \in 0..MaxShortFrames}
LongClips ==
  { [k \in 1..MaxFrames |-> IF k < i THEN a ELSE IF k < j THEN b ELSE c] :
      a \in {FrameBlack, FrameWhite}, b \in {FrameBlack, FrameWhite},
      c \in {FrameBlack, FrameWhite}, i \in 1..MaxFrames, j \in 1..MaxFrames }

(* What cv2.VideoCapture finds at video_path: whether it can be opened (a   *)
(* nonexistent path and bytes that are no video cannot) and the frames it   *)
(* then reads.                                                              *)
Videos ==
  {[opened |-> TRUE, frames |-> f] : f \in ShortClips \cup LongClips}
    \cup {[opened |-> FALSE, frames |-> << >>]}

(* motion_threshold, as the fraction num/den, and frame_skip. *)
Thresholds == { [num |-> 1, den |-> 100], [num |-> 1, den |-> 2],
                [num |-> 1, den |-> 1] }
FrameSkips == {0, 1, 5}

(* cv2.cvtColor(frame, cv2.COLOR_BGR2GRAY) on 8-bit pixels: the fixed-point *)
(* sum (1868 B + 9617 G + 4899 R + 2^13) / 2^14, rounded down.              *)
cvtColor(frame) ==
  [p \in DOMAIN frame |->
     (1868 * frame[p][1] + 9617 * frame[p][2] + 4899 * frame[p][3] + 8192)
       \div 16384]

(* cv2.absdiff(a, b), pixel by pixel. *)
absdiff(a, b) ==
  [p \in DOMAIN a |-> IF a[p] >= b[p] THEN a[p] - b[p] ELSE b[p] - a[p]]

(* cv2.threshold(src, thresh, maxval, cv2.THRESH_BINARY): maxval where the *)
(* pixel is greater than thresh, 0 elsewhere.                              *)
threshold(src, thresh, maxval) ==
  [p \in DOMAIN src |-> IF src[p] > thresh THEN maxval ELSE 0]

(* cv2.countNonZero(img) *)
countNonZero(img) == Cardinality({p \in DOMAIN img : img[p] # 0})

(* Lines 69-77: motion_ratio of the frame `gray` against prev_gray, as the  *)
(* fraction motion_pixels/total_pixels (0 for an image without pixels).     *)
motion_ratio(prev_gray, gray) ==
  LET thresh == threshold(absdiff(prev_gray, gray), 30, 255)
      motion_pixels == countNonZero(thresh)
      total_pixels == Cardinality(DOMAIN thresh)
  IN IF total_pixels > 0 THEN [num |-> motion_pixels, den |-> total_pixels]
     ELSE [num |-> 0, den |-> 1]

(* The comparison of line 81 as >=: a ratio equal to the threshold counts  *)
(* as motion.                                                              *)
Greater_or_equal(q, t) == q.num * t.den >= t.num * q.den

(* q > t on fractions with positive denominators. *)
Greater(q, t) == q.num * t.den > t.num * q.den

(* Line 35: the n-th call of detect_motion on one analyzer and one file    *)
(* starts; `first` is the outcome of the call before it.                   *)
StartCall(video, motion_threshold, frame_skip, n, first, start_time) ==
  [ pc |-> "open", call |-> n, first |-> first,
    video |-> video, motion_threshold |-> motion_threshold,
    frame_skip |-> frame_skip, start_time |-> start_time,
    position |-> 0,           \* the frames cap has read
    prev_gray |-> << >>, frame_count |-> 0, frames_analyzed |-> 0,
    motion_detected |-> FALSE,
    outcome |-> None ]

(* The outcomes of a call: the pair it returns or the exception it raises. *)
Returned(motion_detected, processing_time_ms) ==
  Some([raised |-> FALSE, has_motion |-> motion_detected,
        processing_time_ms |-> processing_time_ms])
Raised == Some([raised |-> TRUE])

ServiceUnchanged ==
  UNCHANGED << video_analysis, files, metrics, run, upload, tasks, now, faults,
               result >>

(* Lines 38-41: cap.isOpened() is false and ValueError leaves the call, or *)
(* the capture is open.                                                    *)
Open ==
  /\ analyzer.pc = "open"
  /\ analyzer' = IF analyzer.video.opened
                   THEN [analyzer EXCEPT !.pc = "first"]
                   ELSE [analyzer EXCEPT !.pc = "raised", !.outcome = Raised]
  /\ ServiceUnchanged

(* ReadFirst with the test of lines 44-46 lost: a video without a frame    *)
(* goes on to the end of the call, which returns (False, duration).        *)
ReadFirst_tolerates_empty ==
  /\ analyzer.pc = "first"
  /\ analyzer' =
       IF Len(analyzer.video.frames) = 0
         THEN [analyzer EXCEPT !.pc = "release"]
         ELSE [analyzer EXCEPT !.pc = "loop", !.position = 1,
                               !.prev_gray = cvtColor(analyzer.video.frames[1]),
                               !.frame_count = 0, !.frames_analyzed = 0,
                               !.motion_detected = FALSE]
  /\ ServiceUnchanged

(* Lines 43-52: the first frame is read and converted, or there is none    *)
(* and ValueError leaves the call.                                         *)
ReadFirst ==
  /\ analyzer.pc = "first"
  /\ analyzer' =
       IF Len(analyzer.video.frames) = 0
         THEN [analyzer EXCEPT !.pc = "raised", !.outcome = Raised]
         ELSE [analyzer EXCEPT !.pc = "loop", !.position = 1,
                               !.prev_gray = cvtColor(analyzer.video.frames[1]),
                               !.frame_count = 0, !.frames_analyzed = 0,
                               !.motion_detected = FALSE]
  /\ ServiceUnchanged

(* Lines 55-57: no frame is left and the loop ends. *)
LoopEnd ==
  /\ analyzer.pc = "loop"
  /\ analyzer.position = Len(analyzer.video.frames)
  /\ analyzer' = [analyzer EXCEPT !.pc = "release"]
  /\ ServiceUnchanged

(* Lines 55-63: a frame is read and skipped. *)
LoopSkip ==
  /\ analyzer.pc = "loop"
  /\ analyzer.position < Len(analyzer.video.frames)
  /\ (analyzer.frame_count + 1) % (analyzer.frame_skip + 1) # 0
  /\ analyzer' = [analyzer EXCEPT !.position = @ + 1, !.frame_count = @ + 1]
  /\ ServiceUnchanged

(* LoopAnalyze with the break of lines 84-85 outside the test of line 81:  *)
(* the loop ends at the tenth analyzed frame, with or without motion.      *)
LoopAnalyze_stops_at_ten ==
  /\ analyzer.pc = "loop"
  /\ analyzer.position < Len(analyzer.video.frames)
  /\ (analyzer.frame_count + 1) % (analyzer.frame_skip + 1) = 0
  /\ LET frame == analyzer.video.frames[analyzer.position + 1]
         frames_analyzed == analyzer.frames_analyzed + 1
         gray == cvtColor(frame)
         moved == Greater(motion_ratio(analyzer.prev_gray, gray),
                          analyzer.motion_threshold)
     IN analyzer' =
          [analyzer EXCEPT
             !.position = @ + 1,
             !.frame_count = @ + 1,
             !.frames_analyzed = frames_analyzed,
             !.motion_detected = IF moved THEN TRUE ELSE @,
             !.pc = IF frames_analyzed >= 10 THEN "release" ELSE "loop",
             !.prev_gray = IF frames_analyzed >= 10 THEN @ ELSE gray]
  /\ ServiceUnchanged

(* Lines 55-87: a frame is read and compared with prev_gray; when the      *)
(* ratio exceeds the threshold motion_detected is set, and the loop ends   *)
(* if 10 frames have been analyzed; otherwise the frame becomes prev_gray. *)
LoopAnalyze ==
  /\ analyzer.pc = "loop"
  /\ analyzer.position < Len(analyzer.video.frames)
  /\ (analyzer.frame_count + 1) % (analyzer.frame_skip + 1) = 0
  /\ LET frame == analyzer.video.frames[analyzer.position + 1]
         frames_analyzed == analyzer.frames_analyzed + 1
         gray == cvtColor(frame)
         moved == Greater(motion_ratio(analyzer.prev_gray, gray),
                          analyzer.motion_threshold)
     IN analyzer' =
          [analyzer EXCEPT
             !.position = @ + 1,
             !.frame_count = @ + 1,
             !.frames_analyzed = frames_analyzed,
             !.motion_detected = IF moved THEN TRUE ELSE @,
             !.pc = IF moved /\ frames_analyzed >= 10 THEN "release" ELSE "loop",
             !.prev_gray = IF moved /\ frames_analyzed >= 10 THEN @ ELSE gray]
  /\ ServiceUnchanged

(* Return with a result that depends on the time the call took: a call    *)
(* that did not end within the millisecond it started in reports motion.   *)
Return_timed ==
  /\ analyzer.pc = "release"
  /\ analyzer' = [analyzer EXCEPT
                    !.pc = "returned",
                    !.outcome = Returned(\/ analyzer.motion_detected
                                         \/ now > analyzer.start_time,
                                         now - analyzer.start_time)]
  /\ ServiceUnchanged

(* Lines 89-98: the capture is released and the pair is returned;          *)
(* processing_time_ms is int((time.time() - start_time) * 1000), with the  *)
(* clock of the model counting milliseconds.                               *)
Return ==
  /\ analyzer.pc = "release"
  /\ analyzer' = [analyzer EXCEPT
                    !.pc = "returned",
                    !.outcome = Returned(analyzer.motion_detected,
                                         now - analyzer.start_time)]
  /\ ServiceUnchanged

(* The caller calls detect_motion again, on the same analyzer and the same *)
(* file.                                                                   *)
CallAgain ==
  /\ analyzer.pc \in {"returned", "raised"}
  /\ analyzer.call = 1
  /\ analyzer' = StartCall(analyzer.video, analyzer.motion_threshold,
                           analyzer.frame_skip, 2, analyzer.outcome, now)
  /\ ServiceUnchanged

(* datetime.utcnow() advances. *)
Tick ==
  /\ now < MaxClock
  /\ now' = now + 1
  /\ UNCHANGED << video_analysis, files, metrics, run, upload, tasks, faults,
                  result, analyzer >>

Next ==
  \/ \E id \in Ids : BackgroundRun(id)
  \/ \E id \in Ids, db_session \in BOOLEAN : DirectRun(id, db_session)
  \/ \E r \in Runs : Query(r)
  \/ \E r \in Runs : CommitProcessing(r)
  \/ \E r \in Runs : DetectCall(r)
  \/ \E r \in Runs : DetectReturn(r)
  \/ \E r \in Runs : CommitCompleted(r)
  \/ \E r \in Runs : ReportCompleted(r)
  \/ \E r \in Runs : Requery(r)
  \/ \E r \in Runs : CommitFailed(r)
  \/ \E r \in Runs : ReportFailed(r)
  \/ \E r \in Runs : Remove(r)
  \/ \E r \in Runs : Count(r)
  \/ \E r \in Runs : Close(r)
  \/ \E filename \in Filenames : UploadReject(filename)
  \/ \E filename \in Filenames : UploadCreate(filename)
  \/ UploadSave
  \/ UploadRespond
  \/ UploadExcept

(* The steps of invocation r, from its first query to its return. *)
RunStep(r) ==
  \/ Query(r)
  \/ CommitProcessing(r)
  \/ DetectCall(r)
  \/ DetectReturn(r)
  \/ CommitCompleted(r)
  \/ ReportCompleted(r)
  \/ Requery(r)
  \/ CommitFailed(r)
  \/ ReportFailed(r)
  \/ Remove(r)
  \/ Count(r)
  \/ Close(r)

(* The service while the clock reading stays the same. *)
Spec == Init /\ [][Next]_vars

(* The service when every call of a started invocation returns or raises:  *)
(* the worker thread that executes the function keeps being scheduled, the *)
(* detector call included.                                                 *)
FairSpec == Spec /\ \A r \in Runs : WF_vars(RunStep(r))

(* The service as deployed: uploads through POST /analyze and the runs the  *)
(* background scheduler starts for them, with no direct call of            *)
(* process_video_analysis.                                                 *)
ServiceNext ==
  \/ \E filename \in Filenames : UploadReject(filename)
  \/ \E filename \in Filenames : UploadCreate(filename)
  \/ UploadSave
  \/ UploadRespond
  \/ UploadExcept
  \/ \E id \in Ids : BackgroundRun(id)
  \/ \E r \in Runs : RunStep(r)

(* The deployed service with clients looking results up at any moment. *)
NextLookup == ServiceNext \/ \E video_id \in Ids : get_result(video_id)
SpecLookup == Init /\ [][NextLookup]_vars

(* The deployed service with the clock advancing between any two steps. *)
NextTime == ServiceNext \/ Tick
SpecTime == Init /\ [][NextTime]_vars

(* detect_motion alone: two calls in a row on one file, for every file and *)
(* configuration of the model, while the clock advances.                   *)
InitDetect ==
  /\ video_analysis = [i \in Ids |-> NoRecord]
  /\ files = {VideoPath(FakeId)}
  /\ video_processed_total = [status \in VideoStatus |-> 0]
  /\ video_errors_total = 0
  /\ videos_in_queue = 0
  /\ video_processing_duration_seconds = << >>
  /\ run = [r \in Runs |-> IdleRun]
  /\ upload = [pc |-> "idle", next_id |-> 1, id |-> FakeId, answer |-> None,
               task_added |-> FALSE]
  /\ tasks = {}
  /\ now = 0
  /\ faults = 0
  /\ result = None
  /\ \E video \in Videos, motion_threshold \in Thresholds,
        frame_skip \in FrameSkips :
       analyzer = StartCall(video, motion_threshold, frame_skip, 1, None, 0)

NextDetect ==
  \/ Open
  \/ ReadFirst
  \/ LoopEnd
  \/ LoopSkip
  \/ LoopAnalyze
  \/ Return
  \/ CallAgain
  \/ Tick

SpecDetect == InitDetect /\ [][NextDetect]_vars

(* ---- the claims ---- *)

Status(i) == video_analysis[i].status
Terminal == {COMPLETED, FAILED}

(* pending < processing < {completed, failed} *)
Rank(st) == CASE st = PENDING -> 0 [] st = PROCESSING -> 1 [] OTHER -> 2

(* The records that are in the table before and after a step. *)
Kept(i) == video_analysis[i] # NoRecord /\ video_analysis'[i] # NoRecord

(* C1: the persisted status of a record never moves to an earlier state in *)
(* the order pending < processing < {completed, failed}, whatever runs are *)
(* invoked for it (also on a record that is not pending, also two runs for *)
(* one id).                                                                *)
C1_StatusNeverMovesBack ==
  [][\A i \in Ids :
       Kept(i) => Rank(video_analysis'[i].status) >= Rank(Status(i))]_vars

(* C2: every change of a record's persisted status is pending->processing, *)
(* processing->completed or processing->failed: processing is never        *)
(* skipped, whichever step of the run fails.                               *)
C2_StatusStepsInOrder ==
  [][\A i \in Ids :
       (Kept(i) /\ video_analysis'[i].status # Status(i))
         => << Status(i), video_analysis'[i].status >> \in
              { << PENDING, PROCESSING >>, << PROCESSING, COMPLETED >>,
                << PROCESSING, FAILED >> }]_vars

(* C3: a completed or failed record has either has_motion and              *)
(* processing_duration_ms set and no error_message, or error_message set   *)
(* and neither of the two: never both groups, never neither.               *)
ResultSet(row) ==
  row.has_motion # None /\ row.processing_duration_ms # None
ResultAbsent(row) ==
  row.has_motion = None /\ row.processing_duration_ms = None

C3_TerminalExclusive ==
  \A i \in Ids :
    Status(i) \in Terminal =>
      LET row == video_analysis[i] IN
      \/ ResultSet(row) /\ row.error_message = None
      \/ row.error_message # None /\ ResultAbsent(row)

(* C4: once a record is persisted completed or failed, no step of any run  *)
(* changes its status.                                                     *)
C4_TerminalIsFinal ==
  [][\A i \in Ids :
       (Kept(i) /\ Status(i) \in Terminal)
         => video_analysis'[i].status = Status(i)]_vars

(* C5: process_video_analysis returns normally in every execution: no      *)
(* invocation ends by raising to its caller.                               *)
C5_NeverRaises == \A r \in Runs : run[r].pc # "raised"

(* The step in which invocation r ends (returns or raises). *)
Ends(r) == run[r].pc = "close" /\ run'[r].pc \in {"returned", "raised"}

(* A step of invocation r, its call included. *)
StepOf(r) == run'[r].pc # run[r].pc

(* C6 as claimed: when a run has returned, the file at video_path does not *)
(* exist, whatever the detector outcome and whether the record exists.     *)
C6_ArtifactGoneAfterRun ==
  [][\A r \in Runs :
       Ends(r) => VideoPath(run[r].video_id) \notin files']_vars

(* C6 as amended: when a run ends, the file at video_path does not exist,  *)
(* unless the run's os.remove raised (which is logged and leaves the file). *)
C6_ArtifactGoneUnlessRemoveRaised ==
  [][\A r \in Runs :
       (Ends(r) /\ ~run[r].remove_failed)
         => VideoPath(run[r].video_id) \notin files']_vars

(* A run has returned for a record it completed (so the detector read the  *)
(* file) and the file is gone.                                             *)
C6_Witness ==
  \E r \in Runs :
    /\ run[r].pc = "returned"
    /\ Status(run[r].video_id) = COMPLETED
    /\ VideoPath(run[r].video_id) \notin files

(* C7: a call with an id that is in no record completes without raising    *)
(* and still runs the cleanup, which deletes the artifact and recomputes    *)
(* the queue gauge. Stated for the calls whose os.remove and count did not  *)
(* themselves raise (their failures are logged and leave the file or the    *)
(* gauge): such a call returns normally and the artifact is gone.           *)
C7_MissingRecordTolerated ==
  [][\A r \in Runs :
       (Ends(r) /\ ~Exists(run[r].video_id)
          /\ ~run[r].remove_failed /\ run[r].gauge_set)
         => /\ run'[r].pc = "returned"
            /\ VideoPath(run[r].video_id) \notin files']_vars

Counters == << video_processed_total, video_errors_total,
               video_processing_duration_seconds >>

(* What every step of a run for an id in no record leaves alone: the table *)
(* and the detector.                                                       *)
MissingRunFrame(r) ==
  /\ video_analysis' = video_analysis
  /\ run'[r].pc \notin {"commit_processing", "detect_motion", "detecting",
                        "commit_completed", "report_completed",
                        "commit_failed"}

(* C8 as claimed: a run for an id in no record changes no record, never    *)
(* invokes the detector and increments neither the processed counter nor   *)
(* the error counter.                                                      *)
C8_MissingRunCountsNothing ==
  [][\A r \in Runs :
       (StepOf(r) /\ ~Exists(run'[r].video_id))
         => MissingRunFrame(r) /\ Counters' = Counters]_vars

(* C8 as amended: a run for an id in no record changes no record and never *)
(* invokes the detector; when its lookup returns (no record) it goes       *)
(* straight to the cleanup and increments no counter; only when the lookup *)
(* itself raises does the except block count one failed run and one error. *)
C8_MissingRunCountsOnlyLookupFailure ==
  [][\A r \in Runs :
       (StepOf(r) /\ ~Exists(run'[r].video_id))
         => /\ MissingRunFrame(r)
            /\ (run[r].pc = "query" /\ faults' = faults)
                 => run'[r].pc = "remove"
            /\ run[r].pc # "report_failed" => Counters' = Counters
            /\ run[r].pc = "report_failed"
                 => /\ video_processed_total'.completed
                         = video_processed_total.completed
                    /\ video_processed_total'.failed
                         \in {video_processed_total.failed,
                              video_processed_total.failed + 1}
                    /\ video_errors_total'
                         \in {video_errors_total, video_errors_total + 1}
                    /\ UNCHANGED video_processing_duration_seconds]_vars

(* A run for the id of no record has returned, no call has raised, and     *)
(* nothing was counted or written.                                         *)
C8_Witness ==
  /\ faults = 0
  /\ \E r \in Runs : run[r].pc = "returned" /\ run[r].video_id = FakeId
  /\ video_processed_total = Processed(0, 0)
  /\ video_errors_total = 0
  /\ \A i \in Ids : ~Exists(i)

(* The detector of invocation r is executing or has executed. *)
DetectorInvoked(r) ==
  \/ run[r].pc \in {"detecting", "commit_completed", "report_completed"}
  \/ run[r].pc = "requery" /\ run[r].e = Some(DetectorError)

(* C9: whenever the detector of a run is executing or has executed, the    *)
(* record of the run is not pending in the table: processing was committed *)
(* before the call.                                                        *)
C9_ProcessingCommittedBeforeDetector ==
  \A r \in Runs : DetectorInvoked(r) => Status(run[r].video_id) # PENDING

(* The detector is executing and a lookup shows processing. *)
C9_Witness ==
  \E r \in Runs :
    run[r].pc = "detecting" /\ Status(run[r].video_id) = PROCESSING

Row(r) == video_analysis[run[r].video_id]
RowAfter(r) == video_analysis'[run[r].video_id]

(* C11 as claimed: a run on an existing record whose detector raised ends  *)
(* by returning, with the record persisted failed, error_message the       *)
(* stringified failure, and has_motion and processing_duration_ms absent.  *)
C11_DetectorFailureRecorded ==
  [][\A r \in Runs :
       (Ends(r) /\ run[r].detector_raised /\ Exists(run[r].video_id))
         => /\ run'[r].pc = "returned"
            /\ RowAfter(r).status = FAILED
            /\ RowAfter(r).error_message = Some(DetectorError)
            /\ ResultAbsent(RowAfter(r))]_vars

(* C11 as amended: when the detector raises, the exception is caught by    *)
(* the except block and never leaves the run (a run whose detector raised  *)
(* ends by raising only when a later call failed for a cause of its own);   *)
(* when the record is read again and the commit of line 96 succeeds, that   *)
(* commit writes status failed and error_message the stringified failure    *)
(* and leaves every other column, so has_motion and processing_duration_ms  *)
(* are absent unless a run had stored them before; when that write fails    *)
(* the row is left as it was.                                               *)
C11_DetectorFailureCaughtAndWritten ==
  [][\A r \in Runs :
       /\ (run[r].pc = "detecting" /\ run'[r].detector_raised)
            => /\ run'[r].pc = "requery"
               /\ run'[r].e = Some(DetectorError)
               /\ ~run'[r].reraise
       /\ (Ends(r) /\ run[r].detector_raised /\ run'[r].pc = "raised")
            => faults' > 0
       /\ (run[r].pc = "commit_failed" /\ run[r].detector_raised
             /\ run'[r].pc = "report_failed")
            => IF run'[r].write_failed
                 THEN RowAfter(r) = Row(r)
                 ELSE RowAfter(r) =
                        [Row(r) EXCEPT !.status = FAILED,
                                       !.error_message = Some(DetectorError)]
       /\ (run[r].pc = "requery" /\ run[r].detector_raised
             /\ run'[r].pc = "report_failed")
            => RowAfter(r) = Row(r)]_vars

(* A run whose detector raised has returned with no call failing, and its  *)
(* record is failed with the detector's message and no result.             *)
C11_Witness ==
  /\ faults = 0
  /\ \E r \in Runs :
       /\ run[r].pc = "returned"
       /\ Status(run[r].video_id) = FAILED
       /\ video_analysis[run[r].video_id].error_message = Some(DetectorError)
       /\ ResultAbsent(video_analysis[run[r].video_id])

(* C12 as claimed: a run that ends with its record completed has           *)
(* incremented the processed counter labeled completed exactly once, has   *)
(* recorded exactly one duration observation, equal to the record's        *)
(* processing_duration_ms / 1000, and has incremented neither the          *)
(* processed counter labeled failed nor the error counter.                 *)
C12_CompletedRunCountsOnce ==
  [][\A r \in Runs :
       (Ends(r) /\ Exists(run[r].video_id) /\ RowAfter(r).status = COMPLETED)
         => /\ run[r].counted.completed = 1
            /\ Len(run[r].counted.observed) = 1
            /\ Some(run[r].counted.observed[1].num)
                 = RowAfter(r).processing_duration_ms
            /\ run[r].counted.observed[1].den = 1000
            /\ run[r].counted.failed = 0
            /\ run[r].counted.errors = 0]_vars

(* C13 as claimed: a run in which processing fails (the except block of    *)
(* line 87 is entered) has incremented the processed counter labeled       *)
(* failed exactly once and the error counter exactly once, has not         *)
(* incremented the processed counter labeled completed and has recorded no *)
(* duration observation.                                                   *)
C13_FailedRunCountsOnce ==
  [][\A r \in Runs :
       (Ends(r) /\ run[r].in_except)
         => run[r].counted = [NoCalls EXCEPT !.failed = 1, !.errors = 1]]_vars

(* C14: when a run returns, the queue gauge equals the number of records   *)
(* that are pending or processing in the table at that moment, whatever    *)
(* runs and uploads go on at the same time.                                *)
C14_GaugeMatchesStore ==
  [][\A r \in Runs :
       (Ends(r) /\ run'[r].pc = "returned")
         => videos_in_queue' = PendingCount']_vars

(* C15: in every state a record's analysis_time is present exactly when    *)
(* its status is completed or failed (it is set when the record becomes    *)
(* completed and also when it becomes failed), and once present it is      *)
(* never changed.                                                          *)
C15_AnalysisTimeIffTerminal ==
  /\ [](\A i \in Ids :
          Exists(i) =>
            (video_analysis[i].analysis_time # None <=> Status(i) \in Terminal))
  /\ [][\A i \in Ids :
          (Kept(i) /\ video_analysis[i].analysis_time # None)
            => video_analysis'[i].analysis_time
                 = video_analysis[i].analysis_time]_vars

(* The invocation has ended. *)
Ended(r) == run[r].pc \in {"returned", "raised"}

C17_FailedWriteLeavesProcessing ==
  [][\A r \in Runs :
       /\ (Ends(r) /\ run[r].detector_raised /\ run[r].write_failed)
            => /\ run'[r].pc = "returned"
               /\ run[r].counted = [NoCalls EXCEPT !.failed = 1, !.errors = 1]
               /\ (run[r].remove_failed
                     \/ VideoPath(run[r].video_id) \notin files')
               /\ RowAfter(r).status = PROCESSING
       /\ (StepOf(r) /\ run[r].write_failed)
            => video_analysis' = video_analysis]_vars

(* C18 as claimed: every run started for an existing pending record        *)
(* eventually returns (the detector call returning or raising), and a run  *)
(* on an existing record whose store calls succeeded returns with the      *)
(* record completed or failed, never pending or processing.                *)
C18_RunReturnsWithTerminalRecord ==
  /\ \A r \in Runs :
       (run[r].pc = "query" /\ Status(run[r].video_id) = PENDING)
         ~> (run[r].pc = "returned")
  /\ [][\A r \in Runs :
          (Ends(r) /\ Exists(run[r].video_id)
             /\ run[r].session_ok /\ ~run[r].write_failed)
            => /\ run'[r].pc = "returned"
               /\ RowAfter(r).status \in Terminal]_vars

(* The step in which the handler creates the record of an upload, and the  *)
(* step in which it answers 200.                                           *)
Creates == upload.pc = "idle" /\ upload'.pc = "save"
Accepts == upload.pc = "add_task" /\ upload'.pc = "idle"

(* No invocation has been started for id i and none is scheduled. *)
Unused(i) ==
  /\ i \notin tasks
  /\ \A r \in Runs : run[r].pc # "idle" => run[r].video_id # i

(* C19: an accepted upload creates exactly one new record, with an id that *)
(* no record, task or run has, status pending and analysis_time,           *)
(* has_motion, processing_duration_ms and error_message absent; it         *)
(* schedules exactly one background run, for that id; and it answers with  *)
(* that id and status pending while the run has not started and the record *)
(* is still as created.                                                    *)
C19_AcceptedUploadCreatesPendingRecord ==
  /\ [][Creates =>
          LET id == upload'.id IN
          /\ id # FakeId /\ ~Exists(id) /\ Unused(id)
          /\ \A i \in Ids \ {id} : video_analysis'[i] = video_analysis[i]
          /\ video_analysis'[id].status = PENDING
          /\ video_analysis'[id].analysis_time = None
          /\ video_analysis'[id].has_motion = None
          /\ video_analysis'[id].processing_duration_ms = None
          /\ video_analysis'[id].error_message = None
          /\ tasks' = tasks]_vars
  /\ [][Accepts =>
          /\ upload'.answer =
               [status_code |-> 200, video_id |-> upload.id, status |-> PENDING]
          /\ Unused(upload.id)
          /\ tasks' = tasks \cup {upload.id}
          /\ video_analysis' = video_analysis
          /\ video_analysis[upload.id].status = PENDING
          /\ video_analysis[upload.id].analysis_time = None
          /\ ResultAbsent(video_analysis[upload.id])
          /\ video_analysis[upload.id].error_message = None
          /\ run' = run]_vars
  /\ [][tasks' \subseteq tasks \/ Accepts]_vars

(* Two uploads have been accepted: both records exist, and the second      *)
(* answer carries the second id while its run is scheduled, not started.   *)
C19_Witness ==
  /\ upload.answer = AnalyzeResponse(2)
  /\ Exists(1) /\ Exists(2)
  /\ Status(2) = PENDING
  /\ 2 \in tasks

(* The filenames of the model whose extension is not an allowed one:       *)
(* a.txt, a, mp4, .mp4, a.mp4.txt and a.mp4/b.                             *)
NotAllowed ==
  { << "a", ".", "t", "x", "t" >>, << "a" >>, << "m", "p", "4" >>,
    << ".", "m", "p", "4" >>,
    << "a", ".", "m", "p", "4", ".", "t", "x", "t" >>,
    << "a", ".", "m", "p", "4", "/", "b" >> }

(* C20: a request whose filename has no allowed extension is answered 400  *)
(* and creates no record, writes no file, schedules no run and changes no  *)
(* metric; and every answer 400 is given that way.                         *)
C20_RejectedUploadChangesNothing ==
  /\ NotAllowed \subseteq Filenames
  /\ [][/\ \A filename \in NotAllowed :
             (UploadReject(filename) \/ UploadCreate(filename))
               => /\ upload'.answer = HTTPException(400)
                  /\ upload'.pc = "idle"
                  /\ UNCHANGED << video_analysis, files, metrics, run, tasks >>
        /\ (upload' # upload /\ upload'.answer = HTTPException(400))
             => UNCHANGED << video_analysis, files, metrics, run, tasks >>]_vars

(* The first request was answered 400 and nothing exists: no record, no    *)
(* upload's file, no task, no run, no metric.                              *)
C20_Witness ==
  /\ upload.answer = HTTPException(400)
  /\ upload.next_id = 2
  /\ \A i \in Ids : ~Exists(i)
  /\ files = {VideoPath(FakeId)}
  /\ tasks = {}
  /\ \A r \in Runs : run[r].pc = "idle"
  /\ video_processed_total = Processed(0, 0)
  /\ video_errors_total = 0
  /\ videos_in_queue = 0
  /\ video_processing_duration_seconds = << >>

(* Record i is deleted by the step. *)
Deleted(i) == Exists(i) /\ video_analysis'[i] = NoRecord

(* C21 as claimed: a record is deleted only by the failure path of the     *)
(* upload handler, and never after background_tasks.add_task was called    *)
(* for it; no step of process_video_analysis deletes a record.             *)
C21_ScheduledRecordNeverDeleted ==
  [][\A i \in Ids :
       Deleted(i)
         => /\ upload.pc = "except" /\ upload.id = i
            /\ ~upload.task_added
            /\ \A r \in Runs : run'[r] = run[r]]_vars

(* C21 as amended: a record is deleted only by the failure path of the     *)
(* upload handler, for the upload it is handling, and only while no run of *)
(* the record can be executed: the task is not among the tasks of answered *)
(* requests and no invocation has been started for the id (a task added    *)
(* before the failing count is dropped with the request); the record of a  *)
(* scheduled task always exists; no step of process_video_analysis deletes *)
(* a record.                                                               *)
C21_DeletedOnlyBeforeRunnable ==
  /\ [][\A i \in Ids :
          Deleted(i)
            => /\ upload.pc = "except" /\ upload.id = i
               /\ Unused(i)
               /\ \A r \in Runs : run'[r] = run[r]]_vars
  /\ [](\A i \in tasks : Exists(i))

(* An upload was answered 500 and its record was deleted: no record, no    *)
(* task and no file of it remain.                                          *)
C21_Witness ==
  /\ upload.pc = "idle"
  /\ upload.answer = HTTPException(500)
  /\ ~Exists(upload.id)
  /\ upload.id \notin tasks
  /\ VideoPath(upload.id) \notin files
  /\ upload.id \in UploadIds

(* The step is a lookup: only GET /results writes its answer. *)
Looks == result' # result

(* C22: a lookup changes no record, no file, no metric, no run and no      *)
(* task; when its query returns, it answers 404 if no record has the id    *)
(* and otherwise the columns of the record as stored at that moment; and   *)
(* the status of a record is changed only by a step of                     *)
(* process_video_analysis.                                                 *)
C22_LookupReadsOnly ==
  /\ [][Looks =>
          /\ UNCHANGED << video_analysis, files, metrics, run, upload, tasks >>
          /\ faults' = faults =>
               \/ /\ result' = HTTPException(404)
                  /\ \E i \in Ids : ~Exists(i)
               \/ \E i \in Ids :
                    /\ Exists(i)
                    /\ result'.status_code = 200
                    /\ result'.id = i
                    /\ result'.status = video_analysis[i].status
                    /\ result'.upload_time = video_analysis[i].upload_time
                    /\ result'.analysis_time = video_analysis[i].analysis_time
                    /\ result'.has_motion = video_analysis[i].has_motion
                    /\ result'.processing_duration_ms
                         = video_analysis[i].processing_duration_ms
                    /\ result'.error_message
                         = video_analysis[i].error_message]_vars
  /\ [][\A i \in Ids :
          (Kept(i) /\ video_analysis'[i].status # Status(i))
            => \E r \in Runs : StepOf(r) /\ run[r].video_id = i]_vars
  /\ [][\A video_id \in Ids :
          get_result(video_id)
            => IF faults' # faults THEN result' = HTTPException(500)
               ELSE IF Exists(video_id)
                 THEN result'.status_code = 200 /\ result'.id = video_id
                 ELSE result' = HTTPException(404)]_vars

(* A lookup made while the run is in the detector answered with status     *)
(* processing, and the record has been completed since.                    *)
C22_Witness ==
  /\ result # None
  /\ result.status_code = 200
  /\ result.status = PROCESSING
  /\ Status(result.id) = COMPLETED

(* Invocation r is at a db.commit() that writes a status to its record. *)
CommitsStatus(r) ==
  /\ run[r].pc \in {"commit_processing", "commit_completed", "commit_failed"}
  /\ StepOf(r)
  /\ Exists(run[r].video_id)
  /\ "status" \in DOMAIN run[r].changes

(* C23: when sessions have loaded the same record and commit different     *)
(* status values, a commit is never refused because of what another        *)
(* session stored in between (it fails only for a cause of its own), and   *)
(* after each commit the stored status is the one that commit wrote: the   *)
(* later commit wins.                                                      *)
C23_LastCommitWins ==
  [][\A r \in Runs :
       CommitsStatus(r)
         => \/ faults' # faults
            \/ /\ RowAfter(r).status = run[r].changes.status
               /\ run'[r].session_ok
               /\ run'[r].pc \in {"detect_motion", "report_completed",
                                  "report_failed"}]_vars

(* Two runs with their own sessions work on one record: the first has      *)
(* committed completed, the second has committed processing after it, and  *)
(* the stored status is processing, on a record that holds a result.       *)
C23_Witness ==
  \E r1, r2 \in Runs :
    /\ r1 # r2
    /\ run[r1].video_id = run[r2].video_id
    /\ run[r1].pc = "report_completed"
    /\ run[r2].pc = "detect_motion"
    /\ Status(run[r1].video_id) = PROCESSING
    /\ Row(r1).has_motion # None

(* C24: within one run the detector is invoked at most once; after the     *)
(* detector raised, the run neither calls it again nor schedules a task;   *)
(* and a record that is persisted failed stays failed.                     *)
C24_NoRetryFailedStaysFailed ==
  /\ [][\A r \in Runs :
          (StepOf(r) /\ run'[r].pc \in {"detect_motion", "detecting"})
            => /\ ~DetectorInvoked(r)
               /\ ~run[r].detector_raised
               /\ ~run[r].in_except]_vars
  /\ [][\A r \in Runs :
          (StepOf(r) /\ run[r].detector_raised) => tasks' = tasks]_vars
  /\ [][\A i \in Ids :
          (Kept(i) /\ Status(i) = FAILED)
            => video_analysis'[i].status = FAILED]_vars

(* What a cleanup step of invocation r leaves as it was: every record, the *)
(* processed and error counters and the observations, and whether the run  *)
(* will raise.                                                             *)
OutcomeKept(r) ==
  /\ video_analysis' = video_analysis
  /\ Counters' = Counters
  /\ run'[r].reraise = run[r].reraise

(* C25: whether or not os.remove raises, the run goes on to the recount,   *)
(* and whether or not the recount raises, it goes on to the close, where a *)
(* session the run opened is closed; none of the three steps changes a     *)
(* record, a processed or error counter or the way the run will end, so    *)
(* they are the same as without the cleanup failure.                       *)
C25_CleanupFailureAbortsNothing ==
  /\ [][\A r \in Runs :
          (StepOf(r) /\ run[r].pc = "remove")
            => run'[r].pc = "count" /\ OutcomeKept(r)]_vars
  /\ [][\A r \in Runs :
          (StepOf(r) /\ run[r].pc = "count")
            => run'[r].pc = "close" /\ OutcomeKept(r)]_vars
  /\ [][\A r \in Runs :
          (StepOf(r) /\ run[r].pc = "close")
            => /\ Ends(r)
               /\ video_analysis' = video_analysis
               /\ Counters' = Counters
               /\ run[r].should_close => run'[r].closed = 1
               /\ faults' = faults
                    => run'[r].pc = IF run[r].reraise THEN "raised"
                                    ELSE "returned"]_vars

(* os.remove raised in a run that had completed its record: the run went   *)
(* on to set the gauge, closed its session and returned; the file is still *)
(* there, the record is completed and counted once.                        *)
C25_Witness ==
  \E r \in Runs :
    /\ run[r].pc = "returned"
    /\ run[r].should_close
    /\ run[r].closed = 1
    /\ VideoPath(run[r].video_id) \in files
    /\ Status(run[r].video_id) = COMPLETED
    /\ video_processed_total = Processed(1, 0)
    /\ video_errors_total = 0
    /\ videos_in_queue = PendingCount
    /\ faults = 1

(* C26: a record has has_motion or processing_duration_ms set only if its  *)
(* status is completed: a pending, processing or failed record has both    *)
(* absent.                                                                 *)
C26_ResultOnlyWhenCompleted ==
  \A i \in Ids :
    (Exists(i) /\ Status(i) # COMPLETED) => ResultAbsent(video_analysis[i])

(* C27: a record has error_message set only if its status is failed: a     *)
(* pending, processing or completed record has none, also after a further  *)
(* run on a record that had failed.                                        *)
C27_ErrorOnlyWhenFailed ==
  \A i \in Ids :
    (Exists(i) /\ Status(i) # FAILED) => video_analysis[i].error_message = None

(* C28: a step of a run for record A leaves every other record as it is,   *)
(* neither creates nor deletes A, and leaves A's upload_time; so it        *)
(* changes at most the status, has_motion, processing_duration_ms,         *)
(* analysis_time and error_message of A, which stays under its id.         *)
C28_RunChangesOnlyItsResultFields ==
  [][\A r \in Runs :
       StepOf(r) =>
         LET A == run'[r].video_id IN
         /\ \A i \in Ids \ {A} : video_analysis'[i] = video_analysis[i]
         /\ Exists(A) <=> video_analysis'[A] # NoRecord
         /\ Exists(A) =>
              /\ DOMAIN video_analysis'[A] = DOMAIN video_analysis[A]
              /\ video_analysis'[A].upload_time
                   = video_analysis[A].upload_time]_vars

(* A run has returned for a record in which runs have written all of       *)
(* status, has_motion, processing_duration_ms, analysis_time and           *)
(* error_message, and another record is still as it was created.           *)
C28_Witness ==
  \E r \in Runs, j \in UploadIds :
    /\ run[r].pc = "returned"
    /\ j # run[r].video_id
    /\ Status(run[r].video_id) = FAILED
    /\ ResultSet(Row(r))
    /\ Row(r).analysis_time # None
    /\ Row(r).error_message # None
    /\ Row(r).upload_time = 0
    /\ video_analysis[j] = VideoAnalysis(0)

(* Invocation r has its own session and is the only invocation for its     *)
(* record, and an invocation with its own session for another record has   *)
(* been started too.                                                       *)
Independent(r) ==
  /\ run[r].should_close
  /\ \A q \in Started \ {r} : run[q].video_id # run[r].video_id
  /\ \E q \in Started \ {r} : run[q].should_close /\ Exists(run[q].video_id)

(* C29: for runs on different records, each with its own session, in every *)
(* interleaving: the commit after the run's detector returned stores       *)
(* completed with the call's result, and no later step of the run changes  *)
(* the completed record; a run whose detector raised ends with its record  *)
(* failed with the call's error and no result; and no step of a run        *)
(* creates or deletes the file of another record.                          *)
C29_RunsIndependent ==
  /\ [][\A r \in Runs :
          (StepOf(r) /\ Independent(r) /\ Exists(run[r].video_id)
             /\ run[r].pc = "commit_completed")
            => /\ RowAfter(r).status = COMPLETED
               /\ RowAfter(r).has_motion = Some(run[r].has_motion)
               /\ RowAfter(r).processing_duration_ms
                    = Some(run[r].processing_duration_ms)]_vars
  /\ [][\A r \in Runs :
          (StepOf(r) /\ Independent(r) /\ Exists(run[r].video_id)
             /\ Row(r).status = COMPLETED)
            => RowAfter(r) = Row(r)]_vars
  /\ [][\A r \in Runs :
          (Ends(r) /\ Independent(r) /\ Exists(run[r].video_id)
             /\ run[r].detector_raised)
            => /\ RowAfter(r).status = FAILED
               /\ RowAfter(r).error_message = Some(DetectorError)
               /\ ResultAbsent(RowAfter(r))]_vars
  /\ [][\A r \in Runs :
          StepOf(r) =>
            \A i \in Ids \ {run'[r].video_id} :
              VideoPath(i) \in files' <=> VideoPath(i) \in files]_vars

(* C30: for every record whose analysis_time is set, analysis_time is not  *)
(* before upload_time, both read from the one clock, which never goes      *)
(* back.                                                                   *)
C30_AnalysisNotBeforeUpload ==
  /\ [](\A i \in Ids :
          (Exists(i) /\ video_analysis[i].analysis_time # None)
            => video_analysis[i].analysis_time[1] >= video_analysis[i].upload_time)
  /\ [][now' >= now]_vars

(* A record uploaded at time 1 was analysed at time 1, and another,        *)
(* uploaded at time 0, was analysed after the clock had advanced.          *)
C30_Witness ==
  \E i, j \in UploadIds :
    /\ Exists(i) /\ Exists(j)
    /\ video_analysis[i].upload_time = 1
    /\ video_analysis[i].analysis_time = Some(1)
    /\ video_analysis[j].upload_time = 0
    /\ video_analysis[j].analysis_time = Some(1)

(* C31: the processed counter is incremented only by a step of a run, by   *)
(* one, under the label completed or failed: the series labeled pending    *)
(* and processing are never incremented.                                   *)
C31_OnlyTerminalLabelsCounted ==
  /\ [](video_processed_total[PENDING] = 0
          /\ video_processed_total[PROCESSING] = 0)
  /\ [][video_processed_total' # video_processed_total
          => /\ \E r \in Runs :
                  StepOf(r) /\ run[r].pc \in {"report_completed", "report_failed"}
             /\ \E status \in {COMPLETED, FAILED} :
                  video_processed_total' =
                    [video_processed_total EXCEPT ![status] = @ + 1]]_vars

(* Two runs have ended, one counted completed and one counted failed, and a *)
(* record is left processing; nothing is counted under another label.      *)
C31_Witness ==
  /\ video_processed_total = Processed(1, 1)
  /\ \A r \in Runs : Ended(r)
  /\ \E i \in Ids : Status(i) = PROCESSING

(* The step in which the upload handler leaves its except block. *)
UploadFails == upload.pc = "except" /\ upload'.pc = "idle"

(* C32 as claimed: when the save or a later step of the upload handler     *)
(* fails, the request is answered 500, the record the handler created and  *)
(* the temp file are gone, and no run is scheduled or started for the      *)
(* record.                                                                 *)
C32_FailedUploadLeavesNothing ==
  [][UploadFails
       => /\ upload'.answer = HTTPException(500)
          /\ video_analysis'[upload.id] = NoRecord
          /\ VideoPath(upload.id) \notin files'
          /\ upload.id \notin tasks'
          /\ \A r \in Runs : run'[r].pc # "idle"
                               => run'[r].video_id # upload.id]_vars

(* C32 as amended: when the save or a later step of the upload handler     *)
(* fails, the request is answered 500 and no run is scheduled or started   *)
(* for the record; when the calls of the except block succeed, the record  *)
(* and the temp file are gone; when its commit raises, the pending record  *)
(* and whatever was written of the file stay; when its os.remove raises,   *)
(* the record is gone and the file stays.                                  *)
C32_FailedUploadCleanedUnlessCleanupRaises ==
  /\ [][UploadFails
          => /\ upload'.answer = HTTPException(500)
             /\ tasks' = tasks /\ upload.id \notin tasks
             /\ run' = run
             /\ \A r \in Runs : run[r].pc # "idle"
                                  => run[r].video_id # upload.id
             /\ IF faults' = faults
                  THEN /\ video_analysis'[upload.id] = NoRecord
                       /\ VideoPath(upload.id) \notin files'
                  ELSE /\ files' = files
                       /\ \/ /\ video_analysis' = video_analysis
                             /\ video_analysis[upload.id].status = PENDING
                          \/ /\ video_analysis'[upload.id] = NoRecord
                             /\ VideoPath(upload.id) \in files]_vars
  /\ [][\A i \in Ids :
          (video_analysis[i] # NoRecord /\ video_analysis'[i] = NoRecord)
            => UploadFails /\ i = upload.id]_vars

(* The second upload failed after its file was written, while the first    *)
(* had been accepted: it was answered 500, its record and its file are     *)
(* gone and no task of it exists; the first upload's record is there.      *)
C32_Witness ==
  /\ upload.pc = "idle"
  /\ upload.next_id = 3
  /\ upload.answer = HTTPException(500)
  /\ faults = 1
  /\ Exists(1)
  /\ ~Exists(2)
  /\ VideoPath(2) \notin files
  /\ 2 \notin tasks
  /\ \A r \in Runs : run[r].pc # "idle" => run[r].video_id # 2

(* A call of detect_motion has ended. *)
CallEnded == analyzer.pc \in {"returned", "raised"}

(* The file cannot be opened or has no first frame. *)
Unreadable ==
  ~analyzer.video.opened \/ Len(analyzer.video.frames) = 0

(* C33: a call of detect_motion on a file that cannot be opened or has no  *)
(* first frame raises and returns no pair, and a call in progress on such  *)
(* a file never reaches the loop or the return; no call on such a file     *)
(* returns (False, duration).                                              *)
C33_UnreadableVideoRaises ==
  (analyzer.pc # "idle" /\ Unreadable)
    => /\ analyzer.pc \in {"open", "first", "raised"}
       /\ analyzer.pc = "raised" => analyzer.outcome = Raised
       /\ analyzer.first \in {None, Raised}

(* Both calls on an opened file without a frame have raised. *)
C33_Witness ==
  /\ analyzer.pc = "raised"
  /\ analyzer.call = 2
  /\ analyzer.video.opened
  /\ Len(analyzer.video.frames) = 0
  /\ analyzer.first = Raised
  /\ analyzer.outcome = Raised

(* The analyzed frames of a video of n frames: the 1-based positions p     *)
(* among the frames after the first that are multiples of frame_skip + 1.  *)
(* The frame at position p is frame p + 1 of the video, and the frame      *)
(* analyzed before it (the first frame, for the first of them) is frame    *)
(* p - frame_skip.                                                         *)
Analyzed(n, frame_skip) ==
  {p \in 1..(n - 1) : p % (frame_skip + 1) = 0}

(* The pixels of frame b that are not equal to the same pixel of frame a. *)
PixelsChanged(a, b) == {p \in DOMAIN b : b[p] # a[p]}

(* The pixels of frame b whose grey level is more than 30 away from that   *)
(* of the same pixel of frame a.                                           *)
PixelsMoved(a, b) ==
  {p \in DOMAIN b :
     \/ cvtColor(b)[p] - cvtColor(a)[p] > 30
     \/ cvtColor(a)[p] - cvtColor(b)[p] > 30}

(* The call has returned a pair. *)
HasReturned == analyzer.pc = "returned"

(* C34 as claimed: for a readable video, has_motion is true if and only if *)
(* some analyzed frame differs from the frame analyzed before it in a      *)
(* fraction of pixels strictly greater than motion_threshold.              *)
C34_MotionIffFrameDiffers ==
  HasReturned =>
    LET frames == analyzer.video.frames
        t == analyzer.motion_threshold
    IN analyzer.outcome[1].has_motion <=>
         \E p \in Analyzed(Len(frames), analyzer.frame_skip) :
           Cardinality(PixelsChanged(frames[p - analyzer.frame_skip],
                                     frames[p + 1])) * t.den
             > t.num * Len(frames[p + 1])

(* C34 as amended: for a readable video, has_motion is true if and only if *)
(* some analyzed frame has a fraction of pixels strictly greater than      *)
(* motion_threshold whose grey level differs by more than 30 from that of  *)
(* the same pixel in the frame analyzed before it; hence a single-frame    *)
(* video yields false and motion_threshold = 1.0 yields false.             *)
C34_MotionIffGreyLevelsMove ==
  HasReturned =>
    LET frames == analyzer.video.frames
        t == analyzer.motion_threshold
        has_motion == analyzer.outcome[1].has_motion
    IN /\ has_motion <=>
            \E p \in Analyzed(Len(frames), analyzer.frame_skip) :
              Cardinality(PixelsMoved(frames[p - analyzer.frame_skip],
                                      frames[p + 1])) * t.den
                > t.num * Len(frames[p + 1])
       /\ Len(frames) = 1 => ~has_motion
       /\ t.num = t.den => ~has_motion

(* With every second frame analyzed and threshold 0.5, a call returned     *)
(* motion for a video in which the one analyzed frame is white after a     *)
(* black first frame, the skipped frame between them being black too.      *)
C34_Witness ==
  /\ HasReturned
  /\ analyzer.frame_skip = 1
  /\ analyzer.motion_threshold = [num |-> 1, den |-> 2]
  /\ analyzer.video.frames = << FrameBlack, FrameBlack, FrameWhite >>
  /\ analyzer.outcome[1].has_motion

(* The second call on the same file and configuration has ended. *)
BothEnded == analyzer.pc \in {"returned", "raised"} /\ analyzer.call = 2

(* C35 as claimed: two calls of detect_motion on the same file bytes with  *)
(* the same motion_threshold and frame_skip return the same pair           *)
(* (has_motion, duration_ms).                                              *)
C35_SameInputSamePair ==
  BothEnded => analyzer.outcome = analyzer.first

(* C35 as amended: two calls of detect_motion on the same file bytes with  *)
(* the same motion_threshold and frame_skip both raise or both return, and *)
(* then with the same has_motion; duration_ms is the wall-clock time of    *)
(* each call (never negative) and can differ between the two.              *)
C35_SameInputSameMotion ==
  BothEnded =>
    /\ analyzer.outcome[1].raised = analyzer.first[1].raised
    /\ ~analyzer.outcome[1].raised =>
         /\ analyzer.outcome[1].has_motion = analyzer.first[1].has_motion
         /\ analyzer.outcome[1].processing_time_ms >= 0
         /\ analyzer.first[1].processing_time_ms >= 0

(* Two calls on one file returned motion both times, the first after one   *)
(* millisecond and the second within the same millisecond.                 *)
C35_Witness ==
  /\ BothEnded
  /\ analyzer.first = Returned(TRUE, 1)
  /\ analyzer.outcome = Returned(TRUE, 0)

(* The loop of lines 54-87 without the break of lines 84-85, from the      *)
(* state after `position` frames were read: every selected frame up to the *)
(* end of the video is compared with the frame analyzed before it.         *)
RECURSIVE FullScan(_, _, _, _, _, _, _)
FullScan(frames, position, frame_count, prev_gray, motion_detected, frame_skip, motion_threshold) ==
  IF position = Len(frames) THEN motion_detected
  ELSE IF (frame_count + 1) % (frame_skip + 1) # 0
    THEN FullScan(frames, position + 1, frame_count + 1, prev_gray,
                  motion_detected, frame_skip, motion_threshold)
    ELSE LET gray == cvtColor(frames[position + 1])
             ratio == motion_ratio(prev_gray, gray)
         IN FullScan(frames, position + 1, frame_count + 1, gray,
                     \/ motion_detected
                     \/ ratio.num * motion_threshold.den
                          > motion_threshold.num * ratio.den,
                     frame_skip, motion_threshold)

(* C36: the has_motion a call returns, with the loop stopping once motion  *)
(* is detected and at least 10 frames are analyzed, is the has_motion of   *)
(* the loop that analyzes every selected frame to the end of the video,    *)
(* for every frame sequence, threshold and frame_skip; and within a call   *)
(* motion_detected, once true, stays true.                                 *)
C36_EarlyExitKeepsResult ==
  /\ [](HasReturned =>
          analyzer.outcome[1].has_motion =
            FullScan(analyzer.video.frames, 1, 0,
                     cvtColor(analyzer.video.frames[1]), FALSE,
                     analyzer.frame_skip, analyzer.motion_threshold))
  /\ [][(analyzer.pc \in {"loop", "release"} /\ analyzer.motion_detected)
          => analyzer'.motion_detected]_vars

(* A call stopped early: it returned motion after 10 analyzed frames, with *)
(* a frame of the video left unread that differs from the one before it.   *)
C36_Witness ==
  /\ HasReturned
  /\ analyzer.frames_analyzed = 10
  /\ analyzer.position = MaxFrames - 1
  /\ Len(analyzer.video.frames) = MaxFrames
  /\ analyzer.video.frames[MaxFrames] # analyzer.video.frames[MaxFrames - 1]
  /\ analyzer.outcome[1].has_motion

(* No run is in flight. *)
Quiet == \A r \in Runs : run[r].pc \in {"idle", "returned", "raised"}

(* No two invocations were made for one id. *)
OneRunPerRecord ==
  \A r1, r2 \in Started : r1 # r2 => run[r1].video_id # run[r2].video_id

(* The runs whose record is in the given status; with one run per record   *)
(* and no run in flight, the runs that left their record in it.            *)
RunsThatLeft(status) ==
  {r \in Started : Exists(run[r].video_id) /\ Status(run[r].video_id) = status}

(* C37: whenever no run is in flight (here with one run per record), the   *)
(* processed counter labeled completed is the number of runs that left     *)
(* their record completed, the one labeled failed is the number of runs    *)
(* that left their record failed, the error counter equals the processed   *)
(* counter labeled failed, and the two processed counters add up to the    *)
(* number of records in a terminal state.                                  *)
C37_CountersMatchRecords ==
  (Quiet /\ OneRunPerRecord) =>
    /\ video_processed_total[COMPLETED] = Cardinality(RunsThatLeft(COMPLETED))
    /\ video_processed_total[FAILED] = Cardinality(RunsThatLeft(FAILED))
    /\ video_errors_total = video_processed_total[FAILED]
    /\ video_processed_total[COMPLETED] + video_processed_total[FAILED]
         = Cardinality({i \in Ids : Status(i) \in Terminal})

(* The artifact of record i still has to be read: its task waits for the   *)
(* scheduler, or a run on i has not yet come back from the detector.       *)
Unread(i) ==
  \/ i \in tasks
  \/ \E q \in Runs :
       /\ run[q].video_id = i
       /\ run[q].pc \in {"query", "commit_processing", "detect_motion",
                         "detecting"}

(* C38: two uploads never share an artifact path, and in every             *)
(* interleaving the cleanup step of a run leaves in place the artifact of  *)
(* every other upload whose run is still pending or has not yet read it.   *)
C38_CleanupSparesOtherArtifacts ==
  /\ [](\A i, j \in UploadIds : i # j => VideoPath(i) # VideoPath(j))
  /\ [][\A r \in Runs :
          (run[r].pc = "remove" /\ StepOf(r)) =>
            \A i \in UploadIds \ {run[r].video_id} :
              (Unread(i) /\ VideoPath(i) \in files)
                => VideoPath(i) \in files']_vars

(* A run has completed its record and removed its artifact while the run   *)
(* of another upload is inside the detector with its artifact in place.    *)
C38_Witness ==
  \E r, q \in Runs :
    /\ run[r].pc \in {"count", "close", "returned"}
    /\ ~run[r].remove_failed
    /\ run[r].video_id \in UploadIds
    /\ Status(run[r].video_id) = COMPLETED
    /\ VideoPath(run[r].video_id) \notin files
    /\ run[q].video_id \in UploadIds \ {run[r].video_id}
    /\ run[q].pc = "detecting"
    /\ VideoPath(run[q].video_id) \in files

====
